---- MODULE Spec2Model ----
(***************************************************************************)
(* Order-book state engine of lighter-rs (src/src/ws_client.rs):           *)
(* ManagedOrderBook with its two BTreeMap sides keyed by exact decimals,   *)
(* apply_snapshot, apply_update and the query surface.                     *)
(*                                                                         *)
(* Strings are sequences of one-character strings; a Decimal is a record   *)
(* [m |-> mantissa, e |-> scale] standing for m / 10^e, compared by value  *)
(* (1 and 1.0 are the same key) and printed with its scale kept.           *)
(***************************************************************************)
EXTENDS Integers, Sequences, FiniteSets, TLC

\* ------------------------------------------------------------------ bounds

\* Most price levels one message carries (asks and bids together).
MaxLevels == 2
\* Largest offset a message carries.
MaxOffset == 2
\* Largest nonce a message carries.
MaxNonce == 1
MaxIds == 2
MaxTimestamp == 2
MaxTasks == 4
MaxNow == 2

\* ---------------------------------------------------------------- decimals

Digits == {"0", "1", "2", "3", "4", "5", "6", "7", "8", "9"}

DigitVal(c) ==
    CASE c = "0" -> 0 [] c = "1" -> 1 [] c = "2" -> 2 [] c = "3" -> 3
      [] c = "4" -> 4 [] c = "5" -> 5 [] c = "6" -> 6 [] c = "7" -> 7
      [] c = "8" -> 8 [] c = "9" -> 9

DigitChar(d) == <<"0", "1", "2", "3", "4", "5", "6", "7", "8", "9">>[d + 1]

RECURSIVE Pow10(_)
Pow10(n) == IF n = 0 THEN 1 ELSE 10 * Pow10(n - 1)

\* The value of a run of digits and dots, the dots skipped.
RECURSIVE Mantissa(_, _)
Mantissa(s, acc) ==
    IF s = <<>> THEN acc
    ELSE IF Head(s) = "." THEN Mantissa(Tail(s), acc)
    ELSE Mantissa(Tail(s), 10 * acc + DigitVal(Head(s)))

ParseErr == [err |-> TRUE]

\* Decimal::from_str: an optional sign, digits, at most one point.
DecimalFromStr(s) ==
    LET neg  == Len(s) > 0 /\ s[1] = "-"
        body == IF neg THEN Tail(s) ELSE s
        dots == {i \in 1..Len(body) : body[i] = "."}
        nd   == Len(body) - Cardinality(dots)
    IN  IF \/ \E i \in 1..Len(body) : body[i] \notin Digits \cup {"."}
           \/ Cardinality(dots) > 1
           \/ nd = 0
        THEN ParseErr
        ELSE [m |-> (IF neg THEN -1 ELSE 1) * Mantissa(body, 0),
              e |-> IF dots = {} THEN 0
                    ELSE Len(body) - (CHOOSE i \in dots : TRUE)]

\* Decimal::ZERO
ZERO == [m |-> 0, e |-> 0]

\* Decimal's Ord and PartialEq compare values, not representations.
DecCmpLt(a, b) == a.m * Pow10(b.e) < b.m * Pow10(a.e)
DecCmpEq(a, b) == a.m * Pow10(b.e) = b.m * Pow10(a.e)

RECURSIVE DigitsOf(_)
DigitsOf(n) == IF n < 10 THEN <<DigitChar(n)>>
               ELSE Append(DigitsOf(n \div 10), DigitChar(n % 10))

RECURSIVE PadLeft(_, _)
PadLeft(s, n) == IF Len(s) >= n THEN s ELSE PadLeft(<<"0">> \o s, n)

\* Decimal's Display: the scale is kept ("10.0" prints as "10.0").
DecimalToString(d) ==
    LET abs == IF d.m < 0 THEN -d.m ELSE d.m
        ds  == PadLeft(DigitsOf(abs), d.e + 1)
        int == SubSeq(ds, 1, Len(ds) - d.e)
        fr  == SubSeq(ds, Len(ds) - d.e + 1, Len(ds))
    IN  (IF d.m < 0 THEN <<"-">> ELSE <<>>)
        \o int \o (IF d.e = 0 THEN <<>> ELSE <<".">> \o fr)

\* --------------------------------------------------------------- BTreeMap

\* A BTreeMap<OrderedDecimal, Decimal> is the sequence of its entries
\* [k |-> key, v |-> value] in ascending key order, keys distinct by value.

BTreeNew == <<>>

BTreeHas(map, k) == \E i \in 1..Len(map) : DecCmpEq(map[i].k, k)

BTreeGet(map, k) == map[CHOOSE i \in 1..Len(map) : DecCmpEq(map[i].k, k)].v

\* A store that pushes every entry at the end (a Vec in place of the map).
BTreeInsert_push(map, k, v) == Append(map, [k |-> k, v |-> v])

\* BTreeMap::insert: a present key keeps its stored key and takes the new
\* value; an absent key is placed in key order.
BTreeInsert(map, k, v) ==
    IF BTreeHas(map, k)
    THEN [i \in 1..Len(map) |->
            IF DecCmpEq(map[i].k, k) THEN [k |-> map[i].k, v |-> v] ELSE map[i]]
    ELSE LET n == Cardinality({i \in 1..Len(map) : DecCmpLt(map[i].k, k)})
         IN  SubSeq(map, 1, n) \o <<[k |-> k, v |-> v]>> \o SubSeq(map, n + 1, Len(map))

\* A remove that clears the side.
BTreeRemove_clear(map, k) == <<>>

\* BTreeMap::remove: no-op when the key is absent.
BTreeRemove(map, k) == SelectSeq(map, LAMBDA en : ~DecCmpEq(en.k, k))

\* ------------------------------------------------------------ the messages

PriceStrs == { <<"1", ".", "0">>, <<"2">>, <<"x">> }
SizeStrs  == { <<"0", ".", "0">>, <<"1">>, <<"2">>, <<"-", "1">>, <<"x">> }

Parses(s) == DecimalFromStr(s) # ParseErr

\* PriceLevel, the levels a message may carry: price 1.0 with every size that
\* parses (zero, two positive sizes, a negative one), price 2 with zero and a
\* positive size, one level whose price does not parse and one whose size
\* does not (the code leaves at the first `?` that fails, whatever the other
\* string is).
PriceLevel ==
    {l \in [price : PriceStrs, size : SizeStrs] :
        \/ l.price = <<"1", ".", "0">> /\ Parses(l.size)
        \/ l.price = <<"2">> /\ l.size \in {<<"0", ".", "0">>, <<"1">>}
        \/ l.price = <<"x">> /\ l.size = <<"1">>
        \/ l.price = <<"2">> /\ l.size = <<"x">>}

LevelSeqs(n) == UNION {[1..k -> PriceLevel] : k \in 0..n}

\* The asks and bids of a message: at most MaxLevels entries together.
Sides ==
    UNION {{[asks |-> a, bids |-> b] : b \in LevelSeqs(MaxLevels - Len(a))} :
            a \in LevelSeqs(MaxLevels)}

\* OrderBookSnapshot and OrderBookUpdate have the same shape.
Messages ==
    {[asks |-> s.asks, bids |-> s.bids, offset |-> o, nonce |-> n] :
        s \in Sides, o \in 0..MaxOffset, n \in 0..MaxNonce}

OrderBookSnapshot == Messages
OrderBookUpdate   == Messages

\* --------------------------------------------------------- ManagedOrderBook

VARIABLES
    book,   \* the ManagedOrderBook
    prev,   \* the book as it was before the last call
    msg,    \* the snapshot or update the last call was given
    op,     \* the last call: "new", "apply_snapshot" or "apply_update"
    res,    \* what the last call returned: "Ok" or "Err"
    pc      \* "idle": no call in hand; "returned": the caller holds a result

bookVars == <<book, prev, msg, op, res, pc>>

\* WsClient and its ingestion loop (WsClient::run)
VARIABLES
    states,      \* order_book_states: market id -> ManagedOrderBook or Absent
    prevStates,  \* order_book_states as the message in hand found it
    cur,         \* the message the loop has in hand
    runpc,       \* where the loop of run is
    cb,          \* the on_order_book_update call made for the message in hand
    writer,      \* the write guard of order_book_states is held
    applied,     \* how many entries of the update in hand apply_update has done
    reader       \* a get_order_book caller: where it is, what it asked, what it got

runVars == <<states, prevStates, cur, runpc, cb, writer, applied, reader>>

\* WsClientBuilder
VARIABLES
    builder,     \* the builder's fields
    lastIds,     \* the lists the last order_books and accounts calls were given
    built        \* what build returned

builderVars == <<builder, lastIds, built>>

\* examples/websocket_circuit_breaker.rs: the breaker, the order counter and
\* the tasks spawned by the order-book callback
VARIABLES
    state,              \* CircuitBreaker.state
    failure_count,      \* CircuitBreaker.failure_count
    last_failure_time,  \* CircuitBreaker.last_failure_time
    order_count,        \* order_count
    now,                \* Instant::now(), in seconds
    tasks               \* the spawned tasks: where each is, what it holds

breakerVars == <<state, failure_count, last_failure_time, order_count, now, tasks>>

vars == <<bookVars, runVars, builderVars, breakerVars>>

\* Option
None == [none |-> TRUE]
Some(x) == [some |-> x]

\* The market ids of the feed.
Markets == {"0", "1"}

\* A key order_book_states does not hold.
Absent == [absent |-> TRUE]

NoWsMsg == [type |-> "none"]

NoReader == [pc |-> "idle", market |-> "0", got |-> None]

\* No client is running: the state of the ingestion variables in the
\* specifications of the book and of the builder.
RunIdle ==
    /\ states = [m \in Markets |-> Absent]
    /\ prevStates = [m \in Markets |-> Absent]
    /\ cur = NoWsMsg
    /\ runpc = "recv"
    /\ cb = None
    /\ writer = FALSE
    /\ applied = 0
    /\ reader = NoReader

\* WsClientBuilder::new
WsClientBuilder_new ==
    [host |-> None, path |-> "/stream", order_book_ids |-> <<>>, account_ids |-> <<>>]

\* No builder call has been made.
BuilderIdle ==
    /\ builder = WsClientBuilder_new
    /\ lastIds = [order_books |-> <<>>, accounts |-> <<>>]
    /\ built = None

\* The circuit breaker of the trading example.
CIRCUIT_CLOSED == 0
CIRCUIT_OPEN == 1
CIRCUIT_HALF_OPEN == 2
MAX_FAILURES == 3

\* Duration::from_secs(60); the clock `now` is in seconds.
CIRCUIT_TIMEOUT == 60

Tasks == 1..MaxTasks

NoTask == [pc |-> "unspawned", failures |-> 0]

\* CircuitBreaker::new, order_count at 0, no update delivered yet.
BreakerIdle ==
    /\ state = CIRCUIT_CLOSED
    /\ failure_count = 0
    /\ last_failure_time = None
    /\ order_count = 0
    /\ now = 0
    /\ tasks = [t \in Tasks |-> NoTask]

\* ManagedOrderBook::new
new(market_id) ==
    [asks |-> BTreeNew, bids |-> BTreeNew, offset |-> 0, nonce |-> 0,
     timestamp |-> 0, market_id |-> market_id]

NoMsg == [asks |-> <<>>, bids |-> <<>>, offset |-> 0, nonce |-> 0]

\* One side's loop of apply_snapshot: `?` leaves at the first entry that does
\* not parse; entries with size > 0 are inserted, the others skipped.
RECURSIVE SnapshotLevels(_, _)
SnapshotLevels(map, levels) ==
    IF levels = <<>> THEN [map |-> map, ok |-> TRUE]
    ELSE LET price == DecimalFromStr(Head(levels).price)
             size  == DecimalFromStr(Head(levels).size)
         IN  IF price = ParseErr \/ size = ParseErr
             THEN [map |-> map, ok |-> FALSE]
             ELSE SnapshotLevels(
                    IF DecCmpLt(ZERO, size) THEN BTreeInsert(map, price, size) ELSE map,
                    Tail(levels))

\* A snapshot applied over the levels already there (the two clear() calls
\* left out).
apply_snapshot_noclear(self, snapshot) ==
    LET a == SnapshotLevels(self.asks, snapshot.asks)
        b == SnapshotLevels(self.bids, snapshot.bids)
    IN  IF ~a.ok
        THEN [book |-> [self EXCEPT !.asks = a.map], res |-> "Err"]
        ELSE IF ~b.ok
        THEN [book |-> [self EXCEPT !.asks = a.map, !.bids = b.map], res |-> "Err"]
        ELSE [book |-> [self EXCEPT !.asks = a.map, !.bids = b.map,
                                    !.offset = snapshot.offset,
                                    !.nonce = snapshot.nonce],
              res |-> "Ok"]

\* ManagedOrderBook::apply_snapshot
apply_snapshot(self, snapshot) ==
    LET a == SnapshotLevels(BTreeNew, snapshot.asks)
        b == SnapshotLevels(BTreeNew, snapshot.bids)
    IN  IF ~a.ok
        THEN [book |-> [self EXCEPT !.asks = a.map, !.bids = BTreeNew], res |-> "Err"]
        ELSE IF ~b.ok
        THEN [book |-> [self EXCEPT !.asks = a.map, !.bids = b.map], res |-> "Err"]
        ELSE [book |-> [self EXCEPT !.asks = a.map, !.bids = b.map,
                                    !.offset = snapshot.offset,
                                    !.nonce = snapshot.nonce],
              res |-> "Ok"]

\* One side's loop of apply_update: size == 0 removes, any other size inserts.
RECURSIVE UpdateLevels(_, _)
UpdateLevels(map, levels) ==
    IF levels = <<>> THEN [map |-> map, ok |-> TRUE]
    ELSE LET price == DecimalFromStr(Head(levels).price)
             size  == DecimalFromStr(Head(levels).size)
         IN  IF price = ParseErr \/ size = ParseErr
             THEN [map |-> map, ok |-> FALSE]
             ELSE UpdateLevels(
                    IF DecCmpEq(size, ZERO) THEN BTreeRemove(map, price)
                    ELSE BTreeInsert(map, price, size),
                    Tail(levels))

\* A staleness test that lets an equal offset through.
IsStale_strict(self, update) == update.offset < self.offset /\ self.offset > 0

\* A staleness test that also orders by nonce.
IsStale_nonce(self, update) ==
    (update.offset <= self.offset \/ update.nonce <= self.nonce) /\ self.offset > 0

\* The staleness test of apply_update.
IsStale(self, update) == update.offset <= self.offset /\ self.offset > 0

\* An update whose bid loop writes to the ask side (the ask loop pasted and
\* only half renamed).
apply_update_pasted(self, update) ==
    IF IsStale(self, update) THEN [book |-> self, res |-> "Ok"]
    ELSE
    LET a == UpdateLevels(self.asks, update.asks)
        b == UpdateLevels(a.map, update.bids)
    IN  IF ~a.ok
        THEN [book |-> [self EXCEPT !.asks = a.map], res |-> "Err"]
        ELSE IF ~b.ok
        THEN [book |-> [self EXCEPT !.asks = b.map], res |-> "Err"]
        ELSE [book |-> [self EXCEPT !.asks = b.map,
                                    !.offset = update.offset,
                                    !.nonce = update.nonce],
              res |-> "Ok"]

\* An update that refuses a delta whose offset skips one.
apply_update_gapcheck(self, update) ==
    IF IsStale(self, update) THEN [book |-> self, res |-> "Ok"]
    ELSE IF self.offset > 0 /\ update.offset > self.offset + 1
    THEN [book |-> self, res |-> "Err"]
    ELSE
    LET a == UpdateLevels(self.asks, update.asks)
        b == UpdateLevels(self.bids, update.bids)
    IN  IF ~a.ok
        THEN [book |-> [self EXCEPT !.asks = a.map], res |-> "Err"]
        ELSE IF ~b.ok
        THEN [book |-> [self EXCEPT !.asks = a.map, !.bids = b.map], res |-> "Err"]
        ELSE [book |-> [self EXCEPT !.asks = a.map, !.bids = b.map,
                                    !.offset = update.offset,
                                    !.nonce = update.nonce],
              res |-> "Ok"]

\* An update that puts the book back as it was when an entry does not parse.
apply_update_rollback(self, update) ==
    IF IsStale(self, update) THEN [book |-> self, res |-> "Ok"]
    ELSE
    LET a == UpdateLevels(self.asks, update.asks)
        b == UpdateLevels(self.bids, update.bids)
    IN  IF ~a.ok \/ ~b.ok
        THEN [book |-> self, res |-> "Err"]
        ELSE [book |-> [self EXCEPT !.asks = a.map, !.bids = b.map,
                                    !.offset = update.offset,
                                    !.nonce = update.nonce],
              res |-> "Ok"]

\* ManagedOrderBook::apply_update
apply_update(self, update) ==
    IF IsStale(self, update) THEN [book |-> self, res |-> "Ok"]
    ELSE
    LET a == UpdateLevels(self.asks, update.asks)
        b == UpdateLevels(self.bids, update.bids)
    IN  IF ~a.ok
        THEN [book |-> [self EXCEPT !.asks = a.map], res |-> "Err"]
        ELSE IF ~b.ok
        THEN [book |-> [self EXCEPT !.asks = a.map, !.bids = b.map], res |-> "Err"]
        ELSE [book |-> [self EXCEPT !.asks = a.map, !.bids = b.map,
                                    !.offset = update.offset,
                                    !.nonce = update.nonce],
              res |-> "Ok"]

\* ------------------------------------------------------------ query surface

ToPriceLevel(en) == [price |-> DecimalToString(en.k), size |-> DecimalToString(en.v)]

Reverse(s) == [i \in 1..Len(s) |-> s[Len(s) + 1 - i]]

\* ManagedOrderBook::all_asks
all_asks(self) == [i \in 1..Len(self.asks) |-> ToPriceLevel(self.asks[i])]

\* all_bids without the rev().
all_bids_norev(self) == [i \in 1..Len(self.bids) |-> ToPriceLevel(self.bids[i])]

\* ManagedOrderBook::all_bids
all_bids(self) == [i \in 1..Len(self.bids) |-> ToPriceLevel(Reverse(self.bids)[i])]

\* ManagedOrderBook::ask_depth, bid_depth
ask_depth(self) == Len(self.asks)
bid_depth(self) == Len(self.bids)

\* PriceLevel::price_decimal
price_decimal(level) == DecimalFromStr(level.price)

\* ------------------------------------------------------------ specification

Init ==
    /\ book = new("0")
    /\ prev = new("0")
    /\ msg = NoMsg
    /\ op = "new"
    /\ res = "Ok"
    /\ pc = "idle"
    /\ RunIdle
    /\ BuilderIdle
    /\ BreakerIdle

ApplySnapshot ==
    /\ pc = "idle"
    /\ pc' = "returned"
    /\ \E snapshot \in OrderBookSnapshot :
        LET r == apply_snapshot(book, snapshot)
        IN  /\ book' = r.book
            /\ prev' = book
            /\ msg' = snapshot
            /\ op' = "apply_snapshot"
            /\ res' = r.res
    /\ UNCHANGED <<runVars, builderVars, breakerVars>>

ApplyUpdate ==
    /\ pc = "idle"
    /\ pc' = "returned"
    /\ \E update \in OrderBookUpdate :
        LET r == apply_update(book, update)
        IN  /\ book' = r.book
            /\ prev' = book
            /\ msg' = update
            /\ op' = "apply_update"
            /\ res' = r.res
    /\ UNCHANGED <<runVars, builderVars, breakerVars>>

\* The caller drops the message and the Result; the book stays.
Return ==
    /\ pc = "returned"
    /\ pc' = "idle"
    /\ prev' = book
    /\ msg' = NoMsg
    /\ op' = "new"
    /\ res' = "Ok"
    /\ UNCHANGED <<book, runVars, builderVars, breakerVars>>

Next == ApplySnapshot \/ ApplyUpdate \/ Return

Spec == Init /\ [][Next]_vars

\* ------------------------------------------------------------------ claims

\* A call has just returned: prev is the book before it, msg its argument.
Returned(o) == pc = "returned" /\ op = o

AllParse(m) ==
    /\ \A i \in 1..Len(m.asks) : Parses(m.asks[i].price) /\ Parses(m.asks[i].size)
    /\ \A i \in 1..Len(m.bids) : Parses(m.bids[i].price) /\ Parses(m.bids[i].size)

\* The prices a message can name.
PriceVals == {DecimalFromStr(s) : s \in {x \in PriceStrs : Parses(x)}}

\* The size stored at price p, or None.
SizeAt(map, p) == IF BTreeHas(map, p) THEN BTreeGet(map, p) ELSE None

\* Every key of the map is one of PriceVals and no key is held twice.
KeysDistinct(map) ==
    Len(map) = Cardinality({p \in PriceVals : BTreeHas(map, p)})

Max(S) == CHOOSE x \in S : \A y \in S : y <= x

\* The entries of `levels` that name price p.
Naming(levels, p) ==
    {i \in 1..Len(levels) : DecCmpEq(DecimalFromStr(levels[i].price), p)}

\* C1: apply_snapshot is all-or-nothing: a snapshot with an entry that does
\* not parse returns an error and leaves asks, bids, offset and nonce as they
\* were before the call.
C1_SnapshotAllOrNothing ==
    (Returned("apply_snapshot") /\ ~AllParse(msg))
        => /\ res = "Err"
           /\ book.asks = prev.asks
           /\ book.bids = prev.bids
           /\ book.offset = prev.offset
           /\ book.nonce = prev.nonce

\* C2: a delta whose offset is <= the offset of a book with offset > 0 is
\* discarded: apply_update returns Ok and the book is unchanged, whatever
\* levels the delta carries.
C2_StaleDiscarded ==
    (Returned("apply_update") /\ prev.offset > 0 /\ msg.offset <= prev.offset)
        => res = "Ok" /\ book = prev

C2_Witness ==
    /\ Returned("apply_update")
    /\ prev.offset > 0
    /\ msg.offset = prev.offset
    /\ msg.nonce # prev.nonce
    /\ ~AllParse(msg)
    /\ Len(msg.asks) = 2
    /\ prev.asks # <<>>
    /\ book = prev

\* C3: a delta for a book whose offset is 0 leaves asks and bids unchanged.
C3_NoBaselineIgnored ==
    (Returned("apply_update") /\ prev.offset = 0)
        => book.asks = prev.asks /\ book.bids = prev.bids

\* C4: every size stored on either side is strictly greater than zero.
C4_SizesPositive ==
    /\ \A i \in 1..Len(book.asks) : DecCmpLt(ZERO, book.asks[i].v)
    /\ \A i \in 1..Len(book.bids) : DecCmpLt(ZERO, book.bids[i].v)

\* C5: apply_update never decreases the offset, and once offset > 0 every
\* apply_update call that changes asks or bids ends with an offset strictly
\* greater than the offset before the call.
C5_OffsetAdvances ==
    Returned("apply_update")
        => /\ book.offset >= prev.offset
           /\ (prev.offset > 0 /\ (book.asks # prev.asks \/ book.bids # prev.bids))
                => book.offset > prev.offset

\* What a side holds after a snapshot with these levels: at each price the
\* size of the last entry with a strictly positive size, and nothing else.
SnapshotSideIs(map, levels) ==
    /\ KeysDistinct(map)
    /\ \A p \in PriceVals :
        LET pos == {i \in Naming(levels, p) :
                        DecCmpLt(ZERO, DecimalFromStr(levels[i].size))}
        IN  SizeAt(map, p) = IF pos = {} THEN None
                             ELSE DecimalFromStr(levels[Max(pos)].size)

\* C6: after apply_snapshot(S) with every entry of S parsing, each side holds
\* exactly the entries of S with strictly positive size (the last one for a
\* repeated price), nothing of the prior state, and offset and nonce are S's.
C6_SnapshotWins ==
    (Returned("apply_snapshot") /\ AllParse(msg))
        => /\ res = "Ok"
           /\ SnapshotSideIs(book.asks, msg.asks)
           /\ SnapshotSideIs(book.bids, msg.bids)
           /\ book.offset = msg.offset
           /\ book.nonce = msg.nonce

C6_Witness ==
    /\ Returned("apply_snapshot")
    /\ AllParse(msg)
    /\ msg.offset < prev.offset
    /\ msg.nonce # prev.nonce
    /\ Len(prev.asks) = 2
    /\ prev.bids # <<>>
    /\ msg.asks = << [price |-> <<"1", ".", "0">>, size |-> <<"1">>],
                     [price |-> <<"1", ".", "0">>, size |-> <<"2">>] >>
    /\ Len(book.asks) = 1
    /\ book.bids = <<>>

\* What a side holds after a delta with these levels: a price no entry names
\* keeps its size; a price named last with size 0 is absent; a price named
\* last with a positive size holds that size.
UpdateSideIs(map, before, levels) ==
    /\ KeysDistinct(map)
    /\ \A p \in PriceVals :
        LET named == Naming(levels, p)
            size  == DecimalFromStr(levels[Max(named)].size)
        IN  IF named = {} THEN SizeAt(map, p) = SizeAt(before, p)
            ELSE /\ DecCmpEq(size, ZERO) => SizeAt(map, p) = None
                 /\ DecCmpLt(ZERO, size) => SizeAt(map, p) = size

\* C7: a delta that is not stale and whose entries all parse is a partial
\* diff per side: ask entries delete (size 0) or upsert (positive size) ask
\* prices and leave the bids alone, and symmetrically; unnamed prices keep
\* their size.
C7_PartialDiff ==
    (Returned("apply_update") /\ ~IsStale(prev, msg) /\ AllParse(msg))
        => /\ res = "Ok"
           /\ UpdateSideIs(book.asks, prev.asks, msg.asks)
           /\ UpdateSideIs(book.bids, prev.bids, msg.bids)

C7_Witness ==
    /\ Returned("apply_update")
    /\ ~IsStale(prev, msg)
    /\ AllParse(msg)
    /\ prev.offset > 0
    /\ Len(prev.asks) = 2
    /\ Len(prev.bids) = 1
    /\ msg.asks = << [price |-> <<"2">>, size |-> <<"0", ".", "0">>] >>
    /\ msg.bids = << [price |-> <<"1", ".", "0">>, size |-> <<"2">>] >>
    /\ Len(book.asks) = 1
    /\ book.bids # prev.bids

IsZeroSize(level) ==
    Parses(level.size) /\ DecCmpEq(DecimalFromStr(level.size), ZERO)

\* The side `after` is `before` with exactly the level at p removed.
RemovedExactly(after, before, p) ==
    /\ SizeAt(after, p) = None
    /\ \A q \in PriceVals \ {p} : SizeAt(after, q) = SizeAt(before, q)
    /\ Len(after) = Len(before) - 1

\* C8: a delta that is not stale and whose only entry is (p, size 0), on a
\* side where p is present, removes exactly the level at p: the other levels
\* of that side and the whole other side are unchanged and the side's depth
\* drops by one.
C8_DeleteExactlyOne ==
    (Returned("apply_update") /\ ~IsStale(prev, msg))
        => /\ \A p \in PriceVals :
                (/\ Len(msg.asks) = 1 /\ msg.bids = <<>>
                 /\ IsZeroSize(msg.asks[1])
                 /\ Naming(msg.asks, p) # {}
                 /\ BTreeHas(prev.asks, p))
                    => /\ RemovedExactly(book.asks, prev.asks, p)
                       /\ ask_depth(book) = ask_depth(prev) - 1
                       /\ book.bids = prev.bids
           /\ \A p \in PriceVals :
                (/\ Len(msg.bids) = 1 /\ msg.asks = <<>>
                 /\ IsZeroSize(msg.bids[1])
                 /\ Naming(msg.bids, p) # {}
                 /\ BTreeHas(prev.bids, p))
                    => /\ RemovedExactly(book.bids, prev.bids, p)
                       /\ bid_depth(book) = bid_depth(prev) - 1
                       /\ book.asks = prev.asks

C8_Witness ==
    /\ Returned("apply_update")
    /\ ~IsStale(prev, msg)
    /\ prev.offset > 0
    /\ Len(prev.bids) = 2
    /\ prev.asks # <<>>
    /\ msg.asks = <<>>
    /\ msg.bids = << [price |-> <<"1", ".", "0">>, size |-> <<"0", ".", "0">>] >>
    /\ Len(book.bids) = 1

\* C9: applying the same delta a second time, right after the first, returns
\* Ok and leaves asks, bids, offset and nonce as the first application left
\* them.
C9_Idempotent ==
    (Returned("apply_update") /\ AllParse(msg))
        => apply_update(book, msg) = [book |-> book, res |-> "Ok"]

C9_Witness ==
    /\ Returned("apply_update")
    /\ AllParse(msg)
    /\ res = "Ok"
    /\ book.asks # prev.asks
    /\ book.bids # prev.bids
    /\ book.offset = msg.offset
    /\ apply_update(book, msg).book = book

\* C10: all_asks() lists strictly ascending prices and all_bids() strictly
\* descending prices, so no price is repeated on a side.
C10_Sorted ==
    /\ \A i \in 1..(Len(all_asks(book)) - 1) :
        DecCmpLt(price_decimal(all_asks(book)[i]), price_decimal(all_asks(book)[i + 1]))
    /\ \A i \in 1..(Len(all_bids(book)) - 1) :
        DecCmpLt(price_decimal(all_bids(book)[i + 1]), price_decimal(all_bids(book)[i]))

C10_Witness ==
    /\ Returned("apply_update")
    /\ res = "Ok"
    /\ Len(msg.bids) = 2
    /\ msg.bids[1].price = <<"1", ".", "0">>
    /\ msg.bids[2].price = <<"2">>
    /\ Len(all_bids(book)) = 2
    /\ Len(all_asks(book)) = 2
    /\ all_bids(book)[1].price = <<"2">>
    /\ all_asks(book)[1].price = <<"1", ".", "0">>

\* C11: a delta that is not stale and holds an entry that does not parse
\* returns an error and leaves asks, bids, offset and nonce as they were
\* before the call.
C11_MalformedDeltaNoEffect ==
    (Returned("apply_update") /\ ~IsStale(prev, msg) /\ ~AllParse(msg))
        => /\ res = "Err"
           /\ book.asks = prev.asks
           /\ book.bids = prev.bids
           /\ book.offset = prev.offset
           /\ book.nonce = prev.nonce

\* ------------------------------------------------- query surface, analytics

\* Decimal's Add and Sub: the result takes the larger scale.
DecAdd(a, b) ==
    LET e == IF a.e > b.e THEN a.e ELSE b.e
    IN  [m |-> a.m * Pow10(e - a.e) + b.m * Pow10(e - b.e), e |-> e]

DecSub(a, b) ==
    LET e == IF a.e > b.e THEN a.e ELSE b.e
    IN  [m |-> a.m * Pow10(e - a.e) - b.m * Pow10(e - b.e), e |-> e]

\* spread / bid_price * Decimal::from(10000), kept as the fraction n / d (the
\* rounding of Decimal's division to 28 digits is not modelled).
DecBps(s, bid) ==
    [n |-> s.m * Pow10(bid.e) * 10000, d |-> bid.m * Pow10(s.e)]

\* ManagedOrderBook::best_ask: asks.iter().next()
best_ask(self) ==
    IF self.asks = <<>> THEN None ELSE Some(ToPriceLevel(self.asks[1]))

\* ManagedOrderBook::best_bid: bids.iter().next_back()
best_bid(self) ==
    IF self.bids = <<>> THEN None ELSE Some(ToPriceLevel(self.bids[Len(self.bids)]))

\* A spread that takes the first bid of the map (next() for next_back()).
spread_firstbid(self) ==
    IF self.asks # <<>> /\ self.bids # <<>>
    THEN Some(DecSub(self.asks[1].k, self.bids[1].k))
    ELSE None

\* ManagedOrderBook::spread
spread(self) ==
    IF self.asks # <<>> /\ self.bids # <<>>
    THEN Some(DecSub(self.asks[1].k, self.bids[Len(self.bids)].k))
    ELSE None

\* A spread_bps whose guard lets a zero bid through (>= for >).
spread_bps_ge(self) ==
    IF /\ self.asks # <<>> /\ self.bids # <<>>
       /\ ~DecCmpLt(self.bids[Len(self.bids)].k, ZERO)
    THEN Some(DecBps(DecSub(self.asks[1].k, self.bids[Len(self.bids)].k),
                     self.bids[Len(self.bids)].k))
    ELSE None

\* ManagedOrderBook::spread_bps
spread_bps(self) ==
    IF /\ self.asks # <<>> /\ self.bids # <<>>
       /\ DecCmpLt(ZERO, self.bids[Len(self.bids)].k)
    THEN Some(DecBps(DecSub(self.asks[1].k, self.bids[Len(self.bids)].k),
                     self.bids[Len(self.bids)].k))
    ELSE None

\* Iterator::sum over Decimal: a fold from ZERO.
RECURSIVE SumSizes(_, _)
SumSizes(entries, acc) ==
    IF entries = <<>> THEN acc
    ELSE SumSizes(Tail(entries), DecAdd(acc, Head(entries).v))

\* take_while(|(p, _)| p.0 <= price): the entries up to the first that fails.
RECURSIVE TakeWhileLe(_, _)
TakeWhileLe(entries, price) ==
    IF entries = <<>> \/ DecCmpLt(price, Head(entries).k) THEN <<>>
    ELSE <<Head(entries)>> \o TakeWhileLe(Tail(entries), price)

\* take_while(|(p, _)| p.0 >= price)
RECURSIVE TakeWhileGe(_, _)
TakeWhileGe(entries, price) ==
    IF entries = <<>> \/ DecCmpLt(Head(entries).k, price) THEN <<>>
    ELSE <<Head(entries)>> \o TakeWhileGe(Tail(entries), price)

\* ManagedOrderBook::ask_volume_to_price
ask_volume_to_price(self, price) == SumSizes(TakeWhileLe(self.asks, price), ZERO)

\* A bid_volume_to_price without the rev().
bid_volume_to_price_norev(self, price) ==
    SumSizes(TakeWhileGe(self.bids, price), ZERO)

\* ManagedOrderBook::bid_volume_to_price
bid_volume_to_price(self, price) ==
    SumSizes(TakeWhileGe(Reverse(self.bids), price), ZERO)

\* The feed of the analytics specification: prices below, at and above zero,
\* sizes that parse, offset and nonce 0 (a book whose offset is 0 takes every
\* delta).
QueryPriceStrs == { <<"-", "1">>, <<"0">>, <<"1", ".", "0">> }
QuerySizeStrs  == { <<"0", ".", "0">>, <<"1">>, <<"2">> }

QueryLevel == [price : QueryPriceStrs, size : QuerySizeStrs]

QueryLevelSeqs(n) == UNION {[1..k -> QueryLevel] : k \in 0..n}

QueryMessages ==
    UNION {{[asks |-> a, bids |-> b, offset |-> 0, nonce |-> 0] :
                b \in QueryLevelSeqs(MaxLevels - Len(a))} :
            a \in QueryLevelSeqs(MaxLevels)}

\* The prices the volume queries are asked for.
QueryArgs ==
    {DecimalFromStr(s) :
        s \in QueryPriceStrs \cup { <<"0", ".", "5">>, <<"2">> }}

FeedSnapshot ==
    /\ pc = "idle"
    /\ \E snapshot \in QueryMessages :
        /\ book' = apply_snapshot(book, snapshot).book
        /\ prev' = book'
    /\ UNCHANGED <<msg, op, res, pc, runVars, builderVars, breakerVars>>

FeedUpdate ==
    /\ pc = "idle"
    /\ \E update \in QueryMessages :
        /\ book' = apply_update(book, update).book
        /\ prev' = book'
    /\ UNCHANGED <<msg, op, res, pc, runVars, builderVars, breakerVars>>

\* A query: the caller holds its result until Return.
Asked(name, arg, result) ==
    /\ pc = "idle"
    /\ pc' = "returned"
    /\ op' = name
    /\ msg' = arg
    /\ res' = result
    /\ prev' = book
    /\ UNCHANGED <<book, runVars, builderVars, breakerVars>>

Spread == Asked("spread", NoMsg, spread(book))

SpreadBps == Asked("spread_bps", NoMsg, spread_bps(book))

AskVolumeToPrice ==
    \E price \in QueryArgs :
        Asked("ask_volume_to_price", price, ask_volume_to_price(book, price))

BidVolumeToPrice ==
    \E price \in QueryArgs :
        Asked("bid_volume_to_price", price, bid_volume_to_price(book, price))

QueryNext ==
    \/ FeedSnapshot \/ FeedUpdate
    \/ Spread \/ SpreadBps \/ AskVolumeToPrice \/ BidVolumeToPrice
    \/ Return

SpecQuery == Init /\ [][QueryNext]_vars

\* The least and the greatest key of a side, by comparison of all keys.
MinKey(map) ==
    map[CHOOSE i \in 1..Len(map) : \A j \in 1..Len(map) : ~DecCmpLt(map[j].k, map[i].k)].k
MaxKey(map) ==
    map[CHOOSE i \in 1..Len(map) : \A j \in 1..Len(map) : ~DecCmpLt(map[i].k, map[j].k)].k

\* C17: spread() is present exactly when both sides are non-empty, and then
\* it is the minimum ask price minus the maximum bid price, which is
\* best_ask().price - best_bid().price, negative when the book is crossed.
C17_Spread ==
    Returned("spread")
        => /\ (res # None) <=> (book.asks # <<>> /\ book.bids # <<>>)
           /\ res # None
                => /\ DecCmpEq(res.some, DecSub(MinKey(book.asks), MaxKey(book.bids)))
                   /\ DecCmpEq(res.some,
                               DecSub(price_decimal(best_ask(book).some),
                                      price_decimal(best_bid(book).some)))

C17_Witness ==
    /\ Returned("spread")
    /\ Len(book.asks) = 2
    /\ Len(book.bids) = 2
    /\ res # None
    /\ res.some.m < 0

\* The sum of the sizes of the entries of `map` at the indices S.
RECURSIVE SumAt(_, _)
SumAt(map, S) ==
    IF S = {} THEN ZERO
    ELSE LET i == CHOOSE x \in S : TRUE
         IN  DecAdd(map[i].v, SumAt(map, S \ {i}))

\* C18: ask_volume_to_price(p) is the sum of the sizes of all ask levels with
\* price <= p and bid_volume_to_price(p) the sum over all bid levels with
\* price >= p (0 when none qualifies).
C18_VolumeToPrice ==
    /\ Returned("ask_volume_to_price")
        => DecCmpEq(res, SumAt(book.asks,
                {i \in 1..Len(book.asks) : ~DecCmpLt(msg, book.asks[i].k)}))
    /\ Returned("bid_volume_to_price")
        => DecCmpEq(res, SumAt(book.bids,
                {i \in 1..Len(book.bids) : ~DecCmpLt(book.bids[i].k, msg)}))

C18_Witness ==
    /\ Returned("bid_volume_to_price")
    /\ Len(book.bids) = 3
    /\ msg = DecimalFromStr(<<"0", ".", "5">>)
    /\ book.bids[3].v = DecimalFromStr(<<"2">>)
    /\ book.bids[1].v = DecimalFromStr(<<"1">>)
    /\ res = DecimalFromStr(<<"2">>)

\* C19: spread_bps() is present exactly when both sides are non-empty and the
\* best (maximum) bid price is strictly greater than 0; it never divides by
\* zero.
C19_SpreadBps ==
    Returned("spread_bps")
        => /\ (res # None) <=> /\ book.asks # <<>>
                               /\ book.bids # <<>>
                               /\ DecCmpLt(ZERO, MaxKey(book.bids))
           /\ res # None => res.some.d # 0

C19_Witness ==
    /\ Returned("spread_bps")
    /\ book.asks # <<>>
    /\ Len(book.bids) = 2
    /\ DecCmpEq(MaxKey(book.bids), ZERO)
    /\ res = None

\* ------------------------------------------------------------ WsClientBuilder

OrderBookIds == UNION {[1..k -> {0, 1}] : k \in 0..MaxIds}
AccountIds   == UNION {[1..k -> {12345, -1}] : k \in 0..MaxIds}
Hosts        == {"mainnet.zklighter.elliot.ai"}
Paths        == {"/stream", "/ws"}

\* WsClientBuilder::host
host(self, h) == [self EXCEPT !.host = Some(h)]

\* WsClientBuilder::path
path(self, p) == [self EXCEPT !.path = p]

\* An order_books that extends the list it finds.
order_books_append(self, ids) ==
    [self EXCEPT !.order_book_ids = self.order_book_ids \o ids]

\* WsClientBuilder::order_books
order_books(self, ids) == [self EXCEPT !.order_book_ids = ids]

\* WsClientBuilder::accounts
accounts(self, ids) == [self EXCEPT !.account_ids = ids]

\* WsClientBuilder::build; base_url is format!("wss://{}{}", host, path).
build(self) ==
    IF self.order_book_ids = <<>> /\ self.account_ids = <<>>
    THEN [err |-> "ValidationError"]
    ELSE [ok |-> [base_url |-> << "wss://",
                                  IF self.host = None
                                  THEN "api-testnet.lighter.xyz"
                                  ELSE self.host.some,
                                  self.path >>,
                  order_book_ids |-> self.order_book_ids,
                  account_ids |-> self.account_ids,
                  order_book_states |-> [m \in Markets |-> Absent]]]

\* WsClient::builder(): a fresh builder, whatever was built before is dropped.
Builder ==
    /\ built # None
    /\ builder' = WsClientBuilder_new
    /\ lastIds' = [order_books |-> <<>>, accounts |-> <<>>]
    /\ built' = None
    /\ UNCHANGED <<bookVars, runVars, breakerVars>>

Host ==
    /\ built = None
    /\ \E h \in Hosts : builder' = host(builder, h)
    /\ UNCHANGED <<lastIds, built, bookVars, runVars, breakerVars>>

Path ==
    /\ built = None
    /\ \E p \in Paths : builder' = path(builder, p)
    /\ UNCHANGED <<lastIds, built, bookVars, runVars, breakerVars>>

\* lastIds records the argument of the latest order_books / accounts call.
OrderBooks ==
    /\ built = None
    /\ \E ids \in OrderBookIds :
        /\ builder' = order_books(builder, ids)
        /\ lastIds' = [lastIds EXCEPT !.order_books = ids]
    /\ UNCHANGED <<built, bookVars, runVars, breakerVars>>

Accounts ==
    /\ built = None
    /\ \E ids \in AccountIds :
        /\ builder' = accounts(builder, ids)
        /\ lastIds' = [lastIds EXCEPT !.accounts = ids]
    /\ UNCHANGED <<built, bookVars, runVars, breakerVars>>

Build ==
    /\ built = None
    /\ built' = Some(build(builder))
    /\ UNCHANGED <<builder, lastIds, bookVars, runVars, breakerVars>>

BuilderNext == Builder \/ Host \/ Path \/ OrderBooks \/ Accounts \/ Build

SpecBuilder == Init /\ [][BuilderNext]_vars

IsErr(r) == "err" \in DOMAIN r
IsOk(r)  == "ok" \in DOMAIN r

\* C20: build fails with ValidationError exactly when the latest order_books
\* list and the latest accounts list are both empty (no call counts as empty;
\* a call replaces the list, it does not append); otherwise it returns a
\* client that holds exactly those lists.
C20_BuildValidation ==
    built # None
        => /\ IsErr(built.some)
             <=> (lastIds.order_books = <<>> /\ lastIds.accounts = <<>>)
           /\ IsErr(built.some) => built.some.err = "ValidationError"
           /\ IsOk(built.some)
                => /\ built.some.ok.order_book_ids = lastIds.order_books
                   /\ built.some.ok.account_ids = lastIds.accounts

\* A build that fails on a builder whose host and path were set.
C20_Witness ==
    /\ built # None
    /\ IsErr(built.some)
    /\ builder.host # None
    /\ builder.path = "/ws"

\* ------------------------------------------------------------- WsClient::run

\* The order-book messages of the feed: a level that inserts, one that
\* removes, one that does not parse.
RunAsks ==
    { <<>>,
      <<[price |-> <<"1", ".", "0">>, size |-> <<"1">>]>>,
      <<[price |-> <<"1", ".", "0">>, size |-> <<"0", ".", "0">>]>>,
      <<[price |-> <<"2">>, size |-> <<"x">>]>> }

RunBids ==
    { <<>>,
      <<[price |-> <<"1", ".", "0">>, size |-> <<"1">>]>>,
      <<[price |-> <<"2">>, size |-> <<"x">>]>> }

WsTypes == {"subscribed/order_book", "update/order_book"}

WsMessages(type) ==
    [type : {type}, market : Markets, timestamp : 1..MaxTimestamp,
     order_book : [asks : RunAsks, bids : RunBids,
                   offset : 0..MaxOffset, nonce : 0..MaxNonce]]

\* states.get(market_id).cloned()
Lookup(st, market_id) ==
    IF st[market_id] = Absent THEN None ELSE Some(st[market_id])

\* An assignment of the timestamp that is never made.
SetTimestamp_keep(self, timestamp) == self

\* managed_ob.timestamp = timestamp; existing.timestamp = timestamp
SetTimestamp(self, timestamp) == [self EXCEPT !.timestamp = timestamp]

\* A snapshot arm that starts the registry afresh before it stores the book.
subscribed_order_book_reset(st, message) ==
    LET managed_ob == SetTimestamp(new(message.market), message.timestamp)
        r == apply_snapshot(managed_ob, message.order_book)
    IN  IF r.res = "Err"
        THEN [states |-> st, res |-> "Err", cb |-> None]
        ELSE [states |-> [m \in Markets |->
                            IF m = message.market THEN r.book ELSE Absent],
              res |-> "Ok",
              cb |-> Some([market_id |-> message.market, book |-> r.book])]

\* A snapshot arm that applies the snapshot to the book already stored.
subscribed_order_book_inplace(st, message) ==
    LET managed_ob == SetTimestamp(IF st[message.market] = Absent
                                   THEN new(message.market)
                                   ELSE st[message.market],
                                   message.timestamp)
        r == apply_snapshot(managed_ob, message.order_book)
    IN  IF r.res = "Err"
        THEN [states |-> [st EXCEPT ![message.market] = r.book],
              res |-> "Err", cb |-> None]
        ELSE [states |-> [st EXCEPT ![message.market] = r.book],
              res |-> "Ok",
              cb |-> Some([market_id |-> message.market, book |-> r.book])]

\* The arm Some("subscribed/order_book") of run: a fresh book takes the
\* snapshot and is stored only when apply_snapshot returned Ok; `?` returns
\* from run otherwise.
subscribed_order_book(st, message) ==
    LET managed_ob == SetTimestamp(new(message.market), message.timestamp)
        r == apply_snapshot(managed_ob, message.order_book)
    IN  IF r.res = "Err"
        THEN [states |-> st, res |-> "Err", cb |-> None]
        ELSE [states |-> [st EXCEPT ![message.market] = r.book],
              res |-> "Ok",
              cb |-> Some([market_id |-> message.market, book |-> r.book])]

\* An update arm that creates the book it does not find (entry().or_insert).
update_order_book_create(st, message) ==
    LET existing == SetTimestamp(IF st[message.market] = Absent
                                 THEN new(message.market)
                                 ELSE st[message.market],
                                 message.timestamp)
        r == apply_update(existing, message.order_book)
    IN  IF r.res = "Err"
        THEN [states |-> [st EXCEPT ![message.market] = r.book],
              res |-> "Err", cb |-> None]
        ELSE [states |-> [st EXCEPT ![message.market] = r.book],
              res |-> "Ok",
              cb |-> Some([market_id |-> message.market, book |-> r.book])]

\* The arm Some("update/order_book") of run: nothing for a market without an
\* entry; otherwise the stored book gets the timestamp, then apply_update;
\* `?` returns from run on Err, the stored book as apply_update left it.
update_order_book(st, message) ==
    IF st[message.market] = Absent
    THEN [states |-> st, res |-> "Ok", cb |-> None]
    ELSE LET existing == SetTimestamp(st[message.market], message.timestamp)
             r == apply_update(existing, message.order_book)
         IN  IF r.res = "Err"
             THEN [states |-> [st EXCEPT ![message.market] = r.book],
                   res |-> "Err", cb |-> None]
             ELSE [states |-> [st EXCEPT ![message.market] = r.book],
                   res |-> "Ok",
                   cb |-> Some([market_id |-> message.market, book |-> r.book])]

\* One pass of the loop of run for a message.
Handle(st, message) ==
    IF message.type = "subscribed/order_book" THEN subscribed_order_book(st, message)
    ELSE IF message.type = "update/order_book" THEN update_order_book(st, message)
    ELSE [states |-> st, res |-> "Ok", cb |-> None]

Handled(message) ==
    LET r == Handle(states, message)
    IN  /\ states' = r.states
        /\ prevStates' = states
        /\ cur' = message
        /\ cb' = r.cb
        /\ runpc' = IF r.res = "Err" THEN "failed" ELSE "handled"
        /\ UNCHANGED <<writer, applied, reader, bookVars, builderVars, breakerVars>>

RunSnapshot ==
    /\ runpc = "recv"
    /\ \E message \in WsMessages("subscribed/order_book") : Handled(message)

RunUpdate ==
    /\ runpc = "recv"
    /\ \E message \in WsMessages("update/order_book") : Handled(message)

\* Back to read.next() for the next message.
RunContinue ==
    /\ runpc = "handled"
    /\ runpc' = "recv"
    /\ cur' = NoWsMsg
    /\ prevStates' = states
    /\ cb' = None
    /\ UNCHANGED <<states, writer, applied, reader, bookVars, builderVars, breakerVars>>

RunNext == RunSnapshot \/ RunUpdate \/ RunContinue

SpecRun == Init /\ [][RunNext]_vars

\* The message in hand is a delta for a market that has a book, is not stale
\* for it and parses.
DeltaApplied ==
    /\ cur.type = "update/order_book"
    /\ prevStates[cur.market] # Absent
    /\ ~IsStale(prevStates[cur.market], cur.order_book)
    /\ AllParse(cur.order_book)

\* C12: after a delta is applied successfully (known market, not stale, all
\* entries parse), the stored book's offset, nonce and timestamp equal the
\* values the delta message carries.
C12_DeltaStamps ==
    (runpc = "handled" /\ DeltaApplied)
        => /\ states[cur.market].offset = cur.order_book.offset
           /\ states[cur.market].nonce = cur.order_book.nonce
           /\ states[cur.market].timestamp = cur.timestamp

C12_Witness ==
    /\ runpc = "handled"
    /\ DeltaApplied
    /\ prevStates[cur.market].offset = 1
    /\ cur.order_book.offset = 2
    /\ cur.order_book.nonce # prevStates[cur.market].nonce
    /\ cur.timestamp # prevStates[cur.market].timestamp
    /\ cur.order_book.asks # <<>>

\* C16: a message that fails to parse does not end ingestion: run never
\* returns because of it, so that later messages are still taken and applied.
C16_ParseErrorNotFatal == runpc # "failed"

\* ------------------------------------- WsClient::run under the write guard

\* A smaller feed for the interleavings with a reader; nonce and timestamp
\* follow the offset.
LockAsks ==
    { <<>>,
      <<[price |-> <<"1", ".", "0">>, size |-> <<"1">>]>>,
      <<[price |-> <<"2">>, size |-> <<"x">>]>> }

LockBids ==
    { <<>>,
      <<[price |-> <<"1", ".", "0">>, size |-> <<"1">>]>> }

LockMessages(type) ==
    { [type |-> type, market |-> m, timestamp |-> 1 + (o % MaxTimestamp),
       order_book |-> [asks |-> a, bids |-> b,
                       offset |-> o, nonce |-> o % (MaxNonce + 1)]] :
        m \in Markets, a \in LockAsks, b \in LockBids, o \in 0..MaxOffset }

\* A read() that does not wait for the write guard to be dropped.
CanRead_always(w) == TRUE

\* RwLock::read: granted when no write guard is held.
CanRead(w) == ~w

\* subscribed/order_book: the snapshot is applied to a local book; with Ok
\* the write guard is taken, the book inserted and the callback called, the
\* guard still held.
LockSnapshot ==
    /\ runpc = "recv"
    /\ \E message \in LockMessages("subscribed/order_book") :
        LET r == subscribed_order_book(states, message)
        IN  /\ cur' = message
            /\ prevStates' = states
            /\ IF r.res = "Err"
               THEN /\ runpc' = "failed"
                    /\ UNCHANGED <<states, cb, writer>>
               ELSE /\ writer' = TRUE
                    /\ states' = r.states
                    /\ cb' = r.cb
                    /\ runpc' = "callback"
    /\ UNCHANGED <<applied, reader, bookVars, builderVars, breakerVars>>

\* update/order_book: the write guard is taken, then get_mut; the stored
\* book gets the timestamp and apply_update begins with its staleness test.
LockUpdate ==
    /\ runpc = "recv"
    /\ \E message \in LockMessages("update/order_book") :
        /\ cur' = message
        /\ prevStates' = states
        /\ writer' = TRUE
        /\ IF states[message.market] = Absent
           THEN /\ runpc' = "release"
                /\ UNCHANGED <<states, cb>>
           ELSE LET existing == SetTimestamp(states[message.market], message.timestamp)
                IN  /\ states' = [states EXCEPT ![message.market] = existing]
                    /\ IF IsStale(existing, message.order_book)
                       THEN /\ runpc' = "callback"
                            /\ cb' = Some([market_id |-> message.market,
                                           book |-> existing])
                       ELSE /\ runpc' = "apply"
                            /\ cb' = cb
    /\ UNCHANGED <<applied, reader, bookVars, builderVars, breakerVars>>

\* One entry of the loops of apply_update, asks first; an entry that does
\* not parse returns from run, which drops the guard.
ApplyLevel ==
    /\ runpc = "apply"
    /\ applied < Len(cur.order_book.asks) + Len(cur.order_book.bids)
    /\ LET update   == cur.order_book
           k        == applied + 1
           onAsks   == k <= Len(update.asks)
           level    == IF onAsks THEN update.asks[k]
                       ELSE update.bids[k - Len(update.asks)]
           existing == states[cur.market]
           r        == UpdateLevels(IF onAsks THEN existing.asks ELSE existing.bids,
                                    <<level>>)
       IN  IF ~r.ok
           THEN /\ runpc' = "failed"
                /\ writer' = FALSE
                /\ UNCHANGED <<states, applied>>
           ELSE /\ states' = [states EXCEPT ![cur.market] =
                                IF onAsks THEN [existing EXCEPT !.asks = r.map]
                                ELSE [existing EXCEPT !.bids = r.map]]
                /\ applied' = k
                /\ UNCHANGED <<runpc, writer>>
    /\ UNCHANGED <<prevStates, cur, cb, reader, bookVars, builderVars, breakerVars>>

\* The end of apply_update: offset and nonce; then the callback is called.
Commit ==
    /\ runpc = "apply"
    /\ applied = Len(cur.order_book.asks) + Len(cur.order_book.bids)
    /\ LET existing == [states[cur.market] EXCEPT
                            !.offset = cur.order_book.offset,
                            !.nonce = cur.order_book.nonce]
       IN  /\ states' = [states EXCEPT ![cur.market] = existing]
           /\ cb' = Some([market_id |-> cur.market, book |-> existing])
    /\ runpc' = "callback"
    /\ UNCHANGED <<prevStates, cur, writer, applied, reader, bookVars, builderVars, breakerVars>>

\* The callback returns (or there was no book to update): the block ends,
\* the guard is dropped, the loop goes back to read.next().
DropGuard ==
    /\ runpc \in {"callback", "release"}
    /\ writer' = FALSE
    /\ runpc' = "recv"
    /\ cur' = NoWsMsg
    /\ prevStates' = states
    /\ cb' = None
    /\ applied' = 0
    /\ UNCHANGED <<states, reader, bookVars, builderVars, breakerVars>>

\* WsClient::get_order_book, from another task.
ReaderCall ==
    /\ reader.pc = "idle"
    /\ \E market_id \in Markets :
        reader' = [pc |-> "waiting", market |-> market_id, got |-> None]
    /\ UNCHANGED <<states, prevStates, cur, runpc, cb, writer, applied,
                   bookVars, builderVars, breakerVars>>

ReaderRead ==
    /\ reader.pc = "waiting"
    /\ CanRead(writer)
    /\ reader' = [reader EXCEPT !.pc = "done", !.got = Lookup(states, reader.market)]
    /\ UNCHANGED <<states, prevStates, cur, runpc, cb, writer, applied,
                   bookVars, builderVars, breakerVars>>

ReaderReturn ==
    /\ reader.pc = "done"
    /\ reader' = NoReader
    /\ UNCHANGED <<states, prevStates, cur, runpc, cb, writer, applied,
                   bookVars, builderVars, breakerVars>>

LockNext ==
    \/ LockSnapshot \/ LockUpdate \/ ApplyLevel \/ Commit \/ DropGuard
    \/ ReaderCall \/ ReaderRead \/ ReaderReturn

SpecLock == Init /\ [][LockNext]_vars

\* C13: the consumer callback is never running while the write guard of the
\* registry is held, so that a slow callback stalls neither the next message
\* nor a get_order_book caller.
C13_CallbackOutsideLock == cb # None => ~writer

\* C14: while a snapshot or delta for one market is being handled under
\* write access, a get_order_book for another market does not have to wait.
C14_MarketsIndependent ==
    (writer /\ cur # NoWsMsg /\ reader.pc = "waiting" /\ reader.market # cur.market)
        => CanRead(writer)

\* C15: what a get_order_book caller reads is the book of its market as it
\* was before the message in hand or as it is after the whole message: never
\* a book with part of a delta's levels, or with its levels but not its
\* offset and nonce.
C15_ReadersExcluded ==
    [][ReaderRead =>
         reader'.got \in { Lookup(prevStates, reader.market),
                           Lookup(Handle(prevStates, cur).states, reader.market) }]_vars

\* A reader waits for the book of the market whose delta is half applied.
C15_Witness ==
    /\ runpc = "apply"
    /\ applied = 1
    /\ reader.pc = "waiting"
    /\ reader.market = cur.market
    /\ Len(cur.order_book.asks) = 1
    /\ Len(cur.order_book.bids) = 1
    /\ states[cur.market].asks # prevStates[cur.market].asks
    /\ states[cur.market].offset # cur.order_book.offset

\* ---------------------------------------------- apply_update, further claims

LevelParses(level) == Parses(level.price) /\ Parses(level.size)

\* The entries of `levels` before the first one that does not parse.
GoodPrefix(levels) ==
    LET bad == {i \in 1..Len(levels) : ~LevelParses(levels[i])}
    IN  IF bad = {} THEN levels
        ELSE SubSeq(levels, 1, (CHOOSE i \in bad : \A j \in bad : i <= j) - 1)

\* C21: when apply_update fails on an entry that does not parse, the entries
\* before it in processing order (asks in message order, then bids) have been
\* applied and stay applied, offset and nonce keep their values from before
\* the call, and a delta with the same offset is still not stale.
C21_NoRollback ==
    (Returned("apply_update") /\ ~IsStale(prev, msg) /\ ~AllParse(msg))
        => /\ res = "Err"
           /\ UpdateSideIs(book.asks, prev.asks, GoodPrefix(msg.asks))
           /\ IF GoodPrefix(msg.asks) # msg.asks
              THEN book.bids = prev.bids
              ELSE UpdateSideIs(book.bids, prev.bids, GoodPrefix(msg.bids))
           /\ book.offset = prev.offset
           /\ book.nonce = prev.nonce
           /\ ~IsStale(book, msg)

C21_Witness ==
    /\ Returned("apply_update")
    /\ res = "Err"
    /\ prev.offset > 0
    /\ msg.offset > prev.offset
    /\ msg.nonce # prev.nonce
    /\ Len(msg.asks) = 1
    /\ Len(msg.bids) = 1
    /\ book.asks # prev.asks

\* Deltas over a longer range of offsets, so that a delta can follow the
\* book's offset directly or skip offsets.
GapMessages ==
    [asks : RunAsks, bids : RunBids,
     offset : 0..(MaxOffset + 2), nonce : 0..MaxNonce]

ApplyDelta ==
    /\ pc = "idle"
    /\ pc' = "returned"
    /\ \E update \in GapMessages :
        LET r == apply_update(book, update)
        IN  /\ book' = r.book
            /\ prev' = book
            /\ msg' = update
            /\ op' = "apply_update"
            /\ res' = r.res
    /\ UNCHANGED <<runVars, builderVars, breakerVars>>

GapNext == ApplyDelta \/ Return

SpecGap == Init /\ [][GapNext]_vars

\* The book has a baseline and the delta's offset is beyond it.
Ahead == Returned("apply_update") /\ prev.offset > 0 /\ msg.offset > prev.offset

\* C22 as stated: every delta with an offset beyond the offset N > 0 of the
\* book is applied in full, without error, and the book's offset becomes the
\* delta's.
C22_EveryDeltaAheadApplied ==
    Ahead => /\ res = "Ok"
             /\ book.offset = msg.offset

\* C22, amended: no gap detection. Every delta whose entries all parse and
\* whose offset M is beyond the offset N > 0 of the book, M = N + 1 or not, is
\* applied in full without error and leaves offset M; result and levels are
\* those the same delta gives with offset N + 1.
C22_NoGapDetection ==
    (Ahead /\ AllParse(msg))
        => /\ res = "Ok"
           /\ UpdateSideIs(book.asks, prev.asks, msg.asks)
           /\ UpdateSideIs(book.bids, prev.bids, msg.bids)
           /\ book.offset = msg.offset
           /\ LET next == apply_update(prev, [msg EXCEPT !.offset = prev.offset + 1])
              IN  /\ next.res = res
                  /\ next.book.asks = book.asks
                  /\ next.book.bids = book.bids

C22_Witness ==
    /\ Ahead
    /\ AllParse(msg)
    /\ prev.offset = 1
    /\ msg.offset = 4
    /\ book.offset = 4
    /\ book.asks # prev.asks

\* C23: the nonce takes no part in ordering. Whatever nonce the book holds
\* and whatever nonce the delta carries, apply_update makes the same decision
\* and gives the same result, asks, bids and offset; the stored nonce is the
\* only thing that follows the nonces.
C23_NonceNotOrdering ==
    Returned("apply_update")
        => \A n1, n2 \in 0..MaxNonce :
            LET other == apply_update([prev EXCEPT !.nonce = n1],
                                      [msg EXCEPT !.nonce = n2])
            IN  /\ other.res = res
                /\ other.book.asks = book.asks
                /\ other.book.bids = book.bids
                /\ other.book.offset = book.offset
                /\ IsStale([prev EXCEPT !.nonce = n1], [msg EXCEPT !.nonce = n2])
                     <=> IsStale(prev, msg)
                /\ other.book.nonce \in {n1, n2}

\* A delta with a lower nonce than the book's, applied because its offset is
\* higher.
C23_Witness ==
    /\ Returned("apply_update")
    /\ prev.offset > 0
    /\ msg.offset > prev.offset
    /\ msg.nonce < prev.nonce
    /\ res = "Ok"
    /\ book.asks # prev.asks
    /\ book.nonce = msg.nonce

\* --------------------------------------------- WsClient::run, further claims

\* The loop has taken a message of this type and is done with it: the
\* handler returned (or run returned with its error).
Processed(type) == runpc \in {"handled", "failed"} /\ cur.type = type

\* C24: on the ingestion path a delta whose offset is not strictly greater
\* than the stored book's offset is discarded: no field of the stored book
\* changes, its timestamp included.
C24_StaleDeltaFrame ==
    (/\ Processed("update/order_book")
     /\ prevStates[cur.market] # Absent
     /\ IsStale(prevStates[cur.market], cur.order_book))
        => states[cur.market] = prevStates[cur.market]

\* C25: a snapshot or delta for one market leaves the stored book of every
\* other market as it was, and every stored book's market_id is the key it is
\* stored under.
C25_OtherMarketsUntouched ==
    /\ \A m \in Markets : states[m] # Absent => states[m].market_id = m
    /\ (runpc \in {"handled", "failed"} /\ cur # NoWsMsg)
        => \A m \in Markets \ {cur.market} : states[m] = prevStates[m]

C25_Witness ==
    /\ Processed("subscribed/order_book")
    /\ runpc = "handled"
    /\ prevStates[cur.market] # Absent
    /\ states[cur.market] # prevStates[cur.market]
    /\ \E m \in Markets \ {cur.market} :
        /\ states[m] # Absent
        /\ states[m].asks # <<>>
        /\ states[m].offset = MaxOffset

C27_FailedSnapshotKeepsBook ==
    (Processed("subscribed/order_book") /\ ~AllParse(cur.order_book))
        => /\ runpc = "failed"
           /\ states = prevStates
           /\ Lookup(states, cur.market) = Lookup(prevStates, cur.market)

C27_Witness ==
    /\ Processed("subscribed/order_book")
    /\ runpc = "failed"
    /\ cur.order_book.asks # <<>>
    /\ AllParse([cur.order_book EXCEPT !.bids = <<>>])
    /\ prevStates[cur.market] # Absent
    /\ prevStates[cur.market].bids # <<>>
    /\ prevStates[cur.market].offset > 0

\* C28: the order-book callback is called for every snapshot and every delta
\* for a known market that is processed without error, before the next
\* message is taken, with the stored book as it stands after the message; for
\* a delta discarded as stale it is called with the unchanged book; it is not
\* called for a message that fails.
C28_CallbackPerMessage ==
    /\ runpc = "failed" => cb = None
    /\ (runpc = "handled" /\ cur.type = "subscribed/order_book")
        => cb = Some([market_id |-> cur.market, book |-> states[cur.market]])
    /\ (runpc = "handled" /\ cur.type = "update/order_book"
            /\ prevStates[cur.market] # Absent)
        => /\ cb = Some([market_id |-> cur.market, book |-> states[cur.market]])
           /\ IsStale(prevStates[cur.market], cur.order_book)
                => cb.some.book = prevStates[cur.market]

\* ------------------------------- examples/websocket_circuit_breaker.rs

\* Task t moves from one position to another; `failures` is the local of
\* record_failure.
Goto(t, from, to) ==
    /\ tasks[t].pc = from
    /\ tasks' = [tasks EXCEPT ![t].pc = to]

BookAndClient == <<bookVars, runVars, builderVars>>

\* on_order_book_update: tokio::spawn of one task per update, in the order
\* the updates are delivered.
Spawn(t) ==
    /\ IF t = 1 THEN TRUE ELSE tasks[t - 1].pc # "unspawned"
    /\ Goto(t, "unspawned", "check")
    /\ UNCHANGED <<state, failure_count, last_failure_time, order_count, now,
                   BookAndClient>>

\* check_and_update: state.load() == CIRCUIT_OPEN
CheckState(t) ==
    /\ Goto(t, "check", IF state = CIRCUIT_OPEN THEN "elapsed" ELSE "gate")
    /\ UNCHANGED <<state, failure_count, last_failure_time, order_count, now,
                   BookAndClient>>

\* check_and_update: last_failure_time.read().await, elapsed() > CIRCUIT_TIMEOUT
CheckElapsed(t) ==
    /\ Goto(t, "elapsed",
            IF /\ last_failure_time # None
               /\ now - last_failure_time.some > CIRCUIT_TIMEOUT
            THEN "half_open" ELSE "gate")
    /\ UNCHANGED <<state, failure_count, last_failure_time, order_count, now,
                   BookAndClient>>

\* check_and_update: state.store(CIRCUIT_HALF_OPEN)
StoreHalfOpen(t) ==
    /\ Goto(t, "half_open", "gate")
    /\ state' = CIRCUIT_HALF_OPEN
    /\ UNCHANGED <<failure_count, last_failure_time, order_count, now,
                   BookAndClient>>

\* cb.is_closed(), the first operand of ||; the book of the update may have
\* no two sides or too small a spread, and then the task ends.
IsClosed(t) ==
    /\ \E tradeable \in BOOLEAN :
        Goto(t, "gate", IF ~tradeable THEN "done"
                        ELSE IF state = CIRCUIT_CLOSED THEN "count" ELSE "gate2")
    /\ UNCHANGED <<state, failure_count, last_failure_time, order_count, now,
                   BookAndClient>>

\* cb.is_half_open(), the second operand
IsHalfOpen(t) ==
    /\ Goto(t, "gate2", IF state = CIRCUIT_HALF_OPEN THEN "count" ELSE "done")
    /\ UNCHANGED <<state, failure_count, last_failure_time, order_count, now,
                   BookAndClient>>

\* let count = order_count.load(); if count < 3
LoadCount(t) ==
    /\ Goto(t, "count", IF order_count < 3 THEN "create" ELSE "done")
    /\ UNCHANGED <<state, failure_count, last_failure_time, order_count, now,
                   BookAndClient>>

\* tx_client.create_market_order(...).await
CreateOrder(t) ==
    /\ \E ok \in BOOLEAN : Goto(t, "create", IF ok THEN "send" ELSE "fail")
    /\ UNCHANGED <<state, failure_count, last_failure_time, order_count, now,
                   BookAndClient>>

\* tx_client.send_transaction(&order).await: code 200, another code, Err
SendTransaction(t) ==
    /\ \E code200 \in BOOLEAN :
        Goto(t, "send", IF code200 THEN "success" ELSE "fail")
    /\ UNCHANGED <<state, failure_count, last_failure_time, order_count, now,
                   BookAndClient>>

\* record_success: failure_count.store(0)
SuccessReset(t) ==
    /\ Goto(t, "success", "close")
    /\ failure_count' = 0
    /\ UNCHANGED <<state, last_failure_time, order_count, now, BookAndClient>>

\* record_success: state.store(CIRCUIT_CLOSED)
SuccessClose(t) ==
    /\ Goto(t, "close", "counted")
    /\ state' = CIRCUIT_CLOSED
    /\ UNCHANGED <<failure_count, last_failure_time, order_count, now,
                   BookAndClient>>

\* order_count.fetch_add(1)
CountOrder(t) ==
    /\ Goto(t, "counted", "done")
    /\ order_count' = order_count + 1
    /\ UNCHANGED <<state, failure_count, last_failure_time, now, BookAndClient>>

\* record_failure: let failures = failure_count.fetch_add(1) + 1
FailureCount(t) ==
    /\ tasks[t].pc = "fail"
    /\ tasks' = [tasks EXCEPT ![t] = [pc |-> "fail_time",
                                      failures |-> failure_count + 1]]
    /\ failure_count' = failure_count + 1
    /\ UNCHANGED <<state, last_failure_time, order_count, now, BookAndClient>>

\* record_failure: *last_failure_time.write().await = Some(Instant::now())
FailureTime(t) ==
    /\ tasks[t].pc = "fail_time"
    /\ tasks' = [tasks EXCEPT ![t] =
                    IF tasks[t].failures >= MAX_FAILURES
                    THEN [pc |-> "fail_open", failures |-> tasks[t].failures]
                    ELSE [pc |-> "done", failures |-> 0]]
    /\ last_failure_time' = Some(now)
    /\ UNCHANGED <<state, failure_count, order_count, now, BookAndClient>>

\* record_failure: state.store(CIRCUIT_OPEN)
FailureOpen(t) ==
    /\ tasks[t].pc = "fail_open"
    /\ tasks' = [tasks EXCEPT ![t] = [pc |-> "done", failures |-> 0]]
    /\ state' = CIRCUIT_OPEN
    /\ UNCHANGED <<failure_count, last_failure_time, order_count, now,
                   BookAndClient>>

\* Time passes, a timeout's length at a time.
Tick ==
    /\ now < MaxNow * CIRCUIT_TIMEOUT
    /\ now' = now + CIRCUIT_TIMEOUT
    /\ UNCHANGED <<state, failure_count, last_failure_time, order_count, tasks,
                   BookAndClient>>

BreakerNext ==
    \/ Tick
    \/ \E t \in Tasks :
        \/ Spawn(t) \/ CheckState(t) \/ CheckElapsed(t) \/ StoreHalfOpen(t)
        \/ IsClosed(t) \/ IsHalfOpen(t) \/ LoadCount(t)
        \/ CreateOrder(t) \/ SendTransaction(t)
        \/ SuccessReset(t) \/ SuccessClose(t) \/ CountOrder(t)
        \/ FailureCount(t) \/ FailureTime(t) \/ FailureOpen(t)

SpecBreaker == Init /\ [][BreakerNext]_vars

\* C29: trading stops while the circuit is OPEN: no task creates or submits
\* an order in a state where the breaker is OPEN, and the breaker leaves OPEN
\* only for HALF_OPEN, more than CIRCUIT_TIMEOUT after the last failure.
C29_NoTradingWhileOpen ==
    [][ /\ (\E t \in Tasks : CreateOrder(t) \/ SendTransaction(t))
            => state # CIRCUIT_OPEN
        /\ (state = CIRCUIT_OPEN /\ state' # CIRCUIT_OPEN)
            => /\ state' = CIRCUIT_HALF_OPEN
               /\ last_failure_time # None
               /\ now - last_failure_time.some > CIRCUIT_TIMEOUT ]_vars

\* C30: the number of orders submitted successfully never exceeds the demo
\* limit of 3.
C30_OrderLimit == order_count <= 3

====
